---- MODULE Spec2Model ----
(***************************************************************************)
(* DiffModel and UnchangedRegion of                                        *)
(* src/vs/editor/browser/widget/diffEditorWidget2/diffModel.ts.            *)
(*                                                                         *)
(* The state machine is the 'compute diff' autorun of the DiffModel        *)
(* constructor (trigger, debounce, provider call, token check, region      *)
(* derivation, state transfer, decoration rebinding, transactional         *)
(* publish), the disposal of the model, and the fold operations of the     *)
(* published UnchangedRegion objects.                                      *)
(***************************************************************************)
EXTENDS Integers, Sequences, FiniteSets, TLC

\* ------------------------------------------------------------------ bounds
\* Number of input changes (document edits, option changes) explored.
MaxInputChanges == 1
\* Line count of both documents when the DiffModel is constructed.
NumLines == 16
\* Lines inserted at the top of a document by the shifting edit.
ShiftLines == 2
\* Number of fold operations (showMore*, showAll, setState, reveal*) explored.
MaxFoldOps == 1

\* -------------------------------------------------------- program constants
minHiddenLineCount == 3
minContext == 3
ShowMoreLines == 10

\* A value that may be undefined/null: the empty sequence, or << value >>.
None == << >>
Some(x) == << x >>
ValueOf(o) == o[1]

Min(a, b) == IF a < b THEN a ELSE b
Abs(a) == IF a < 0 THEN -a ELSE a

\* ---------------------------------------------------------------- LineRange
\* vs/editor/common/core/lineRange: [startLineNumber, endLineNumberExclusive)
LineRange(s, e) == [startLineNumber |-> s, endLineNumberExclusive |-> e]
ofLength(s, len) == LineRange(s, s + len)
rangeLength(r) == r.endLineNumberExclusive - r.startLineNumber
isEmpty(r) == r.startLineNumber = r.endLineNumberExclusive
intersectsStrict(a, b) ==
    /\ a.startLineNumber < b.endLineNumberExclusive
    /\ b.startLineNumber < a.endLineNumberExclusive
contains(r, lineNumber) ==
    /\ r.startLineNumber <= lineNumber
    /\ lineNumber < r.endLineNumberExclusive
\* Range with inclusive end line, as held by a decoration.
toInclusiveRange(r) ==
    [startLineNumber |-> r.startLineNumber,
     endLineNumber |-> r.endLineNumberExclusive - 1]
fromRange(range) == LineRange(range.startLineNumber, range.endLineNumber + 1)

\* --------------------------------------------------------- LineRangeMapping
LineRangeMapping(o, m) == [originalRange |-> o, modifiedRange |-> m]

\* The unchanged spans between, before and after the changes.
RECURSIVE inverseFrom(_, _, _, _, _, _)
inverseFrom(mapping, i, lastOrig, lastMod, originalLineCount, modifiedLineCount) ==
    IF i > Len(mapping)
    THEN LET r == LineRangeMapping(LineRange(lastOrig, originalLineCount + 1),
                                   LineRange(lastMod, modifiedLineCount + 1))
         IN  IF isEmpty(r.modifiedRange) THEN << >> ELSE << r >>
    ELSE LET m == mapping[i]
             r == LineRangeMapping(
                      LineRange(lastOrig, m.originalRange.startLineNumber),
                      LineRange(lastMod, m.modifiedRange.startLineNumber))
             rest == inverseFrom(mapping, i + 1,
                                 m.originalRange.endLineNumberExclusive,
                                 m.modifiedRange.endLineNumberExclusive,
                                 originalLineCount, modifiedLineCount)
         IN  IF isEmpty(r.modifiedRange) THEN rest ELSE << r >> \o rest
inverse(mapping, originalLineCount, modifiedLineCount) ==
    inverseFrom(mapping, 1, 1, 1, originalLineCount, modifiedLineCount)

\* ---------------------------------------------------------- UnchangedRegion
UnchangedRegion(originalLineNumber, modifiedLineNumber, lineCount, top, bottom) ==
    [originalLineNumber |-> originalLineNumber,
     modifiedLineNumber |-> modifiedLineNumber,
     lineCount |-> lineCount,
     visibleLineCountTop |-> top,
     visibleLineCountBottom |-> bottom]

originalRange(r) == ofLength(r.originalLineNumber, r.lineCount)
modifiedRange(r) == ofLength(r.modifiedLineNumber, r.lineCount)

getHiddenOriginalRange(r) ==
    ofLength(r.originalLineNumber + r.visibleLineCountTop,
             r.lineCount - r.visibleLineCountTop - r.visibleLineCountBottom)
getHiddenModifiedRange(r) ==
    ofLength(r.modifiedLineNumber + r.visibleLineCountTop,
             r.lineCount - r.visibleLineCountTop - r.visibleLineCountBottom)

\* Mutant: the end-of-document test comes before the start-of-document test.
regionOfMappingEndFirst(mapping, originalLineCount) ==
    LET origStart == mapping.originalRange.startLineNumber
        modStart == mapping.modifiedRange.startLineNumber
        length == rangeLength(mapping.originalRange)
    IN  IF /\ origStart + length = originalLineCount + 1
           /\ length > minContext + minHiddenLineCount
        THEN << UnchangedRegion(origStart + minContext, modStart + minContext,
                                length - minContext, 0, 0) >>
        ELSE IF origStart = 1 /\ length > minContext + minHiddenLineCount
        THEN << UnchangedRegion(origStart, modStart, length - minContext, 0, 0) >>
        ELSE IF length > minContext * 2 + minHiddenLineCount
        THEN << UnchangedRegion(origStart + minContext, modStart + minContext,
                                length - minContext * 2, 0, 0) >>
        ELSE << >>

\* Mutant: the end-of-document branch moves the start but keeps the length.
regionOfMappingKeepsLength(mapping, originalLineCount) ==
    LET origStart == mapping.originalRange.startLineNumber
        modStart == mapping.modifiedRange.startLineNumber
        length == rangeLength(mapping.originalRange)
    IN  IF origStart = 1 /\ length > minContext + minHiddenLineCount
        THEN << UnchangedRegion(origStart, modStart, length - minContext, 0, 0) >>
        ELSE IF /\ origStart + length = originalLineCount + 1
                /\ length > minContext + minHiddenLineCount
        THEN << UnchangedRegion(origStart + minContext, modStart + minContext,
                                length, 0, 0) >>
        ELSE IF length > minContext * 2 + minHiddenLineCount
        THEN << UnchangedRegion(origStart + minContext, modStart + minContext,
                                length - minContext * 2, 0, 0) >>
        ELSE << >>

\* The region one unchanged span yields: << >> or a one-element sequence.
regionOfMapping(mapping, originalLineCount) ==
    LET origStart == mapping.originalRange.startLineNumber
        modStart == mapping.modifiedRange.startLineNumber
        length == rangeLength(mapping.originalRange)
    IN  IF origStart = 1 /\ length > minContext + minHiddenLineCount
        THEN << UnchangedRegion(origStart, modStart, length - minContext, 0, 0) >>
        ELSE IF /\ origStart + length = originalLineCount + 1
                /\ length > minContext + minHiddenLineCount
        THEN << UnchangedRegion(origStart + minContext, modStart + minContext,
                                length - minContext, 0, 0) >>
        ELSE IF length > minContext * 2 + minHiddenLineCount
        THEN << UnchangedRegion(origStart + minContext, modStart + minContext,
                                length - minContext * 2, 0, 0) >>
        ELSE << >>

RECURSIVE regionsOfMappings(_, _, _)
regionsOfMappings(inversedMappings, i, originalLineCount) ==
    IF i > Len(inversedMappings) THEN << >>
    ELSE regionOfMapping(inversedMappings[i], originalLineCount)
             \o regionsOfMappings(inversedMappings, i + 1, originalLineCount)

fromDiffs(changes, originalLineCount, modifiedLineCount) ==
    regionsOfMappings(inverse(changes, originalLineCount, modifiedLineCount),
                      1, originalLineCount)

\* Mutant: the top count grows by ShowMoreLines whatever is left hidden.
showMoreAboveUnclamped(r) ==
    [r EXCEPT !.visibleLineCountTop = r.visibleLineCountTop + ShowMoreLines]

showMoreAbove(r) ==
    LET maxVisibleLineCountTop == r.lineCount - r.visibleLineCountBottom
    IN  [r EXCEPT !.visibleLineCountTop =
            Min(r.visibleLineCountTop + ShowMoreLines, maxVisibleLineCountTop)]

showMoreBelow(r) ==
    LET maxVisibleLineCountBottom == r.lineCount - r.visibleLineCountTop
    IN  [r EXCEPT !.visibleLineCountBottom =
            Min(r.visibleLineCountBottom + ShowMoreLines, maxVisibleLineCountBottom)]

\* Mutant: the bottom count becomes lineCount, whatever the top count is.
showAllIgnoresTop(r) ==
    [r EXCEPT !.visibleLineCountBottom = r.lineCount]

showAll(r) ==
    [r EXCEPT !.visibleLineCountBottom = r.lineCount - r.visibleLineCountTop]

\* Mutant: the top count is not clamped to lineCount.
setStateTopUnclamped(r, visibleLineCountTop, visibleLineCountBottom) ==
    LET top == visibleLineCountTop
        bottom == Min(visibleLineCountBottom, r.lineCount - top)
    IN  [r EXCEPT !.visibleLineCountTop = top, !.visibleLineCountBottom = bottom]

\* Mutant: the bottom count is clamped to lineCount, not to what top leaves.
setStateBottomUnclamped(r, visibleLineCountTop, visibleLineCountBottom) ==
    [r EXCEPT !.visibleLineCountTop = Min(visibleLineCountTop, r.lineCount),
              !.visibleLineCountBottom = Min(visibleLineCountBottom, r.lineCount)]

setState(r, visibleLineCountTop, visibleLineCountBottom) ==
    LET top == Min(visibleLineCountTop, r.lineCount)
        bottom == Min(visibleLineCountBottom, r.lineCount - top)
    IN  [r EXCEPT !.visibleLineCountTop = top, !.visibleLineCountBottom = bottom]

\* ------------------------------------------------------------ the documents
\* A text model: its version, its line count and its decorations (the
\* position handles), each an id bound to an inclusive line range.
TextModel(versionId, lineCount, decorations) ==
    [versionId |-> versionId, lineCount |-> lineCount, decorations |-> decorations]

getDecorationRange(textModel, id) ==
    IF id \in DOMAIN textModel.decorations
    THEN Some(textModel.decorations[id])
    ELSE None

\* The n smallest ids that are not in the set used.
RECURSIVE freshIds(_, _, _)
freshIds(used, n, from) ==
    IF n = 0 THEN << >>
    ELSE IF from \in used THEN freshIds(used, n, from + 1)
    ELSE << from >> \o freshIds(used, n - 1, from + 1)

\* deltaDecorations removes the decorations oldIds and adds one decoration per
\* range; it returns the ids of the new decorations, which are ids that are
\* neither in use nor among oldIds.
deltaDecorationIds(textModel, oldIds, newRanges) ==
    freshIds(DOMAIN textModel.decorations \cup {oldIds[k] : k \in 1..Len(oldIds)},
             Len(newRanges), 1)
deltaDecorations(textModel, oldIds, newRanges) ==
    LET ids == deltaDecorationIds(textModel, oldIds, newRanges)
        old == {oldIds[k] : k \in 1..Len(oldIds)}
        kept == DOMAIN textModel.decorations \ old
        indexOf(id) == CHOOSE k \in 1..Len(ids) : ids[k] = id
    IN  [textModel EXCEPT
            !.decorations =
                [id \in kept \cup {ids[k] : k \in 1..Len(ids)} |->
                    IF id \in kept THEN textModel.decorations[id]
                    ELSE newRanges[indexOf(id)]]]

\* The edits explored: "replace" rewrites a line that no decoration tracks,
\* "insertTop" inserts ShiftLines lines before line 1, "replaceTracked"
\* deletes the text a decoration tracks and writes as many new lines.
Edits(textModel) ==
    {[kind |-> "replace", id |-> 0], [kind |-> "insertTop", id |-> 0]}
    \cup {[kind |-> "replaceTracked", id |-> id] : id \in DOMAIN textModel.decorations}

shiftRange(range, delta) ==
    [startLineNumber |-> range.startLineNumber + delta,
     endLineNumber |-> range.endLineNumber + delta]

applyEdit(textModel, edit) ==
    IF edit.kind = "insertTop"
    THEN [textModel EXCEPT
            !.versionId = @ + 1,
            !.lineCount = @ + ShiftLines,
            !.decorations = [id \in DOMAIN @ |-> shiftRange(@[id], ShiftLines)]]
    ELSE IF edit.kind = "replaceTracked"
    THEN [textModel EXCEPT
            !.versionId = @ + 1,
            !.decorations = [id \in DOMAIN @ \ {edit.id} |-> @[id]]]
    ELSE [textModel EXCEPT !.versionId = @ + 1]

\* ------------------------------------------------------- the diff provider
\* The change lists a provider may report for documents of the given line
\* counts: ordered mappings, at least one unchanged line between two of them,
\* the unchanged spans of equal length on both sides.
\* The results explored: at most two mappings, each starting at the first,
\* the middle or the last original line; one-line modifications when the
\* line counts agree; otherwise also insertions and deletions, of one line or
\* of as many lines as the line counts differ by.
MappingCounts == 0..2
ChangeStarts(originalLineCount) ==
    {1, originalLineCount \div 2, originalLineCount}
ChangeLens(originalLineCount, modifiedLineCount) ==
    IF originalLineCount = modifiedLineCount THEN {1}
    ELSE {0, 1, Abs(modifiedLineCount - originalLineCount)}

RECURSIVE ChangesFrom(_, _, _, _, _)
\* The change lists of at most n mappings that start at original line >=
\* minStart, modStart - origStart being delta before the first of them.
ChangesFrom(n, minStart, delta, originalLineCount, modifiedLineCount) ==
    {<< >> : x \in IF originalLineCount + delta = modifiedLineCount THEN {1} ELSE {}}
    \cup
    IF n = 0 THEN {}
    ELSE UNION {
        {<< LineRangeMapping(ofLength(s, olen), ofLength(s + delta, mlen)) >> \o rest :
            rest \in ChangesFrom(n - 1, s + olen + 1, delta + mlen - olen,
                                 originalLineCount, modifiedLineCount)} :
        <<s, olen, mlen>> \in
            {t \in ChangeStarts(originalLineCount)
                    \X ChangeLens(originalLineCount, modifiedLineCount)
                    \X ChangeLens(originalLineCount, modifiedLineCount) :
                /\ t[1] >= minStart
                /\ t[2] + t[3] > 0
                /\ t[1] + t[2] <= originalLineCount + 1
                /\ t[1] + delta + t[3] <= modifiedLineCount + 1}}

ValidChangeLists(originalLineCount, modifiedLineCount) ==
    ChangesFrom(Cardinality(MappingCounts) - 1, 1, 0, originalLineCount, modifiedLineCount)

\* The line counts a document can have, and the provider's results for them.
LineCounts == {NumLines + k * ShiftLines : k \in 0..MaxInputChanges}
ChangeListTable ==
    [originalLineCount \in LineCounts, modifiedLineCount \in LineCounts |->
        ValidChangeLists(originalLineCount, modifiedLineCount)]

\* ---------------------------------------------------------------- the state
VARIABLES
    original,              \* model.original
    modified,              \* model.modified
    ignoreTrimWhitespace,  \* the observable option
    maxComputationTimeMs,  \* the observable option
    providerOptions,       \* the provider's own options, a version of them
    isDiffUpToDate,        \* _isDiffUpToDate
    diff,                  \* _diff: None or Some(result)
    unchangedRegions,      \* _unchangedRegions
    computations,          \* one entry per run of the autorun
    disposed,              \* the DiffModel is disposed
    numInputChanges,       \* input changes so far
    numFoldOps,            \* fold operations so far
    lastTransfer           \* what the step just taken transferred, if it did

vars == << original, modified, ignoreTrimWhitespace, maxComputationTimeMs,
           providerOptions, isDiffUpToDate, diff, unchangedRegions,
           computations, disposed, numInputChanges, numFoldOps, lastTransfer >>

MaxComputationTimes == {0, 5000}
SetStateArgs == {0, 2, 20}

\* What a computation is computed for: the values the autorun reads.
Inputs ==
    [originalVersionId |-> original.versionId,
     modifiedVersionId |-> modified.versionId,
     originalLineCount |-> original.lineCount,
     modifiedLineCount |-> modified.lineCount,
     providerOptions |-> providerOptions,
     ignoreTrimWhitespace |-> ignoreTrimWhitespace,
     maxComputationTimeMs |-> maxComputationTimeMs]

NoTransfer == [kind |-> "none"]

\* ----------------------------------------------------------- the autorun
\* One run of the autorun: the values read, the token source it creates and
\* where its promise chain stands.
\*   state: "timeout"            waiting for timeout(1000, token)
\*          "cancelledInTimeout" the token was cancelled during the wait
\*          "computeDiff"        awaiting documentDiffProvider.computeDiff
\*          "discarded"          the provider resolved, the token was cancelled
\*          "published"          the transaction ran
\*          "rejected"           the provider rejected
\*          "threw"              the continuation threw before the transaction
\*   trigger: the inputs when the autorun ran; call: the inputs the provider
\*   was called with; supersededWhile: the state this run was in when the
\*   autorun ran again or the model was disposed ("no" until then);
\*   regionsAtTrigger: the published regions when the autorun ran.
newComputation(inputs) ==
    [state |-> "timeout",
     isCancellationRequested |-> FALSE,
     ignoreTrimWhitespaceVal |-> inputs.ignoreTrimWhitespace,
     maxComputationTimeMsVal |-> inputs.maxComputationTimeMs,
     trigger |-> inputs,
     call |-> None,
     calls |-> 0,
     publishes |-> 0,
     supersededWhile |-> "no",
     regionsAtTrigger |-> unchangedRegions.regions]

\* timeout(millis, token) rejects as soon as the token is cancelled.
timeoutOnCancel(state) == IF state = "timeout" THEN "cancelledInTimeout" ELSE state

\* Mutant: cancellationTokenSrc.dispose() without cancelling.
disposeWithoutCancel(c) == c

\* toDisposable(() => cancellationTokenSrc.dispose(true))
disposeTokenSource(c) ==
    [c EXCEPT !.isCancellationRequested = TRUE,
              !.state = timeoutOnCancel(@)]

noteSuperseded(c) ==
    [c EXCEPT !.supersededWhile = IF @ = "no" THEN c.state ELSE @]

\* The store of the autorun's last run is disposed when the autorun runs
\* again and when the autorun itself is disposed.
disposeStore(comps) ==
    [e \in DOMAIN comps |->
        IF e = Len(comps) THEN disposeTokenSource(noteSuperseded(comps[e]))
        ELSE comps[e]]

TypeOK ==
    /\ isDiffUpToDate \in BOOLEAN
    /\ disposed \in BOOLEAN
    /\ ignoreTrimWhitespace \in BOOLEAN
    /\ maxComputationTimeMs \in MaxComputationTimes
    /\ numInputChanges \in 0..MaxInputChanges
    /\ numFoldOps \in 0..MaxFoldOps
    /\ Len(computations) \in 1..(MaxInputChanges + 1)

\* The state when the constructor returns: the autorun has run once.
Init ==
    /\ original = TextModel(1, NumLines, << >>)
    /\ modified = TextModel(1, NumLines, << >>)
    /\ ignoreTrimWhitespace = FALSE
    /\ maxComputationTimeMs = 5000
    /\ providerOptions = 1
    /\ isDiffUpToDate = FALSE
    /\ diff = None
    /\ unchangedRegions =
        [regions |-> << >>, originalDecorationIds |-> << >>,
         modifiedDecorationIds |-> << >>]
    /\ computations =
        << newComputation(
            [originalVersionId |-> 1, modifiedVersionId |-> 1,
             originalLineCount |-> NumLines, modifiedLineCount |-> NumLines,
             providerOptions |-> 1, ignoreTrimWhitespace |-> FALSE,
             maxComputationTimeMs |-> 5000]) >>
    /\ disposed = FALSE
    /\ numInputChanges = 0
    /\ numFoldOps = 0
    /\ lastTransfer = NoTransfer

\* Mutant: the autorun does not reset _isDiffUpToDate.
computeDiffAutorunKeepsFlag ==
    /\ UNCHANGED isDiffUpToDate
    /\ computations' = Append(disposeStore(computations), newComputation(Inputs'))

\* The body of the autorun 'compute diff', run when a value it read changed.
computeDiffAutorun ==
    /\ isDiffUpToDate' = FALSE
    /\ computations' = Append(disposeStore(computations), newComputation(Inputs'))

\* After the input change: the autorun runs, unless it is disposed.
autorunReacts ==
    /\ IF disposed
       THEN UNCHANGED << isDiffUpToDate, computations >>
       ELSE computeDiffAutorun
    /\ numInputChanges' = numInputChanges + 1
    /\ lastTransfer' = NoTransfer
    /\ UNCHANGED << diff, unchangedRegions, disposed, numFoldOps >>

\* model.original.onDidChangeContent
OriginalChanges(edit) ==
    /\ numInputChanges < MaxInputChanges
    /\ edit \in Edits(original)
    /\ original' = applyEdit(original, edit)
    /\ UNCHANGED << modified, ignoreTrimWhitespace, maxComputationTimeMs, providerOptions >>
    /\ autorunReacts

\* model.modified.onDidChangeContent
ModifiedChanges(edit) ==
    /\ numInputChanges < MaxInputChanges
    /\ edit \in Edits(modified)
    /\ modified' = applyEdit(modified, edit)
    /\ UNCHANGED << original, ignoreTrimWhitespace, maxComputationTimeMs, providerOptions >>
    /\ autorunReacts

\* documentDiffProvider.onDidChange
ProviderOptionChanges ==
    /\ numInputChanges < MaxInputChanges
    /\ providerOptions' = providerOptions + 1
    /\ UNCHANGED << original, modified, ignoreTrimWhitespace, maxComputationTimeMs >>
    /\ autorunReacts

IgnoreTrimWhitespaceChanges ==
    /\ numInputChanges < MaxInputChanges
    /\ ignoreTrimWhitespace' = ~ignoreTrimWhitespace
    /\ UNCHANGED << original, modified, maxComputationTimeMs, providerOptions >>
    /\ autorunReacts

MaxComputationTimeMsChanges(ms) ==
    /\ numInputChanges < MaxInputChanges
    /\ ms \in MaxComputationTimes \ {maxComputationTimeMs}
    /\ maxComputationTimeMs' = ms
    /\ UNCHANGED << original, modified, ignoreTrimWhitespace, providerOptions >>
    /\ autorunReacts

\* Mutant: the autorun is not registered, so disposing leaves its store.
DisposeLeavesStore ==
    /\ ~disposed
    /\ disposed' = TRUE
    /\ UNCHANGED << original, modified, ignoreTrimWhitespace, maxComputationTimeMs,
                    providerOptions, isDiffUpToDate, diff, unchangedRegions,
                    computations, numInputChanges, numFoldOps >>
    /\ lastTransfer' = NoTransfer

\* The DiffModel is disposed: the autorun and, with it, the store of its
\* last run.
Dispose ==
    /\ ~disposed
    /\ disposed' = TRUE
    /\ computations' = disposeStore(computations)
    /\ lastTransfer' = NoTransfer
    /\ UNCHANGED << original, modified, ignoreTrimWhitespace, maxComputationTimeMs,
                    providerOptions, isDiffUpToDate, diff, unchangedRegions,
                    numInputChanges, numFoldOps >>

\* Mutant: the continuation also runs when the timeout was cancelled.
TimeoutResolvesWhenCancelled(e) ==
    /\ e \in DOMAIN computations
    /\ computations[e].state \in {"timeout", "cancelledInTimeout"}
    /\ computations' =
        [computations EXCEPT
            ![e].state = "computeDiff",
            ![e].calls = @ + 1,
            ![e].call = Some([Inputs EXCEPT
                !.ignoreTrimWhitespace = computations[e].ignoreTrimWhitespaceVal,
                !.maxComputationTimeMs = computations[e].maxComputationTimeMsVal])]
    /\ lastTransfer' = NoTransfer
    /\ UNCHANGED << original, modified, ignoreTrimWhitespace, maxComputationTimeMs,
                    providerOptions, isDiffUpToDate, diff, unchangedRegions,
                    disposed, numInputChanges, numFoldOps >>

\* timeout(1000, token) resolves: the provider is called with the documents
\* and the option values the autorun read.
TimeoutResolves(e) ==
    /\ e \in DOMAIN computations
    /\ computations[e].state = "timeout"
    /\ computations' =
        [computations EXCEPT
            ![e].state = "computeDiff",
            ![e].calls = @ + 1,
            ![e].call = Some([Inputs EXCEPT
                !.ignoreTrimWhitespace = computations[e].ignoreTrimWhitespaceVal,
                !.maxComputationTimeMs = computations[e].maxComputationTimeMsVal])]
    /\ lastTransfer' = NoTransfer
    /\ UNCHANGED << original, modified, ignoreTrimWhitespace, maxComputationTimeMs,
                    providerOptions, isDiffUpToDate, diff, unchangedRegions,
                    disposed, numInputChanges, numFoldOps >>

\* Mutant: a rejection handler marks the diff up to date.
ComputeDiffRejectsMarksUpToDate(e) ==
    /\ e \in DOMAIN computations
    /\ computations[e].state = "computeDiff"
    /\ computations' = [computations EXCEPT ![e].state = "rejected"]
    /\ isDiffUpToDate' = ~computations[e].isCancellationRequested
    /\ lastTransfer' = NoTransfer
    /\ UNCHANGED << original, modified, ignoreTrimWhitespace, maxComputationTimeMs,
                    providerOptions, diff, unchangedRegions,
                    disposed, numInputChanges, numFoldOps >>

\* documentDiffProvider.computeDiff rejects: the promise chain ends.
ComputeDiffRejects(e) ==
    /\ e \in DOMAIN computations
    /\ computations[e].state = "computeDiff"
    /\ computations' = [computations EXCEPT ![e].state = "rejected"]
    /\ lastTransfer' = NoTransfer
    /\ UNCHANGED << original, modified, ignoreTrimWhitespace, maxComputationTimeMs,
                    providerOptions, isDiffUpToDate, diff, unchangedRegions,
                    disposed, numInputChanges, numFoldOps >>

\* ------------------------------------------------- transfer state (62-85)
\* .map(id => getDecorationRange(id)): one entry per previous region, None
\* where the decoration does not resolve.
resolvedRanges(textModel, decorationIds) ==
    [k \in 1..Len(decorationIds) |-> getDecorationRange(textModel, decorationIds[k])]

\* .filter(r => !!r).map(r => LineRange.fromRange(r!))
filteredLineRanges(resolved) ==
    LET found == SelectSeq(resolved, LAMBDA r : r # None)
    IN  [k \in 1..Len(found) |-> fromRange(ValueOf(found[k]))]

\* Mutant: the inner loop without its break, so the last match wins.
RECURSIVE transferToLastMatch(_, _, _, _, _)
transferToLastMatch(r, lastRegions, origRanges, modRanges, i) ==
    IF i > Len(lastRegions) THEN [threw |-> FALSE, region |-> r]
    ELSE IF i > Len(origRanges) THEN [threw |-> TRUE, region |-> r]
    ELSE IF ~intersectsStrict(originalRange(r), origRanges[i])
    THEN transferToLastMatch(r, lastRegions, origRanges, modRanges, i + 1)
    ELSE IF i > Len(modRanges) THEN [threw |-> TRUE, region |-> r]
    ELSE IF intersectsStrict(modifiedRange(r), modRanges[i])
    THEN transferToLastMatch(
            setState(r, lastRegions[i].visibleLineCountTop,
                        lastRegions[i].visibleLineCountBottom),
            lastRegions, origRanges, modRanges, i + 1)
    ELSE transferToLastMatch(r, lastRegions, origRanges, modRanges, i + 1)

\* The inner loop for the new region r, from index i of the previous regions
\* on. Reading past the end of a filtered list yields undefined, and
\* intersectsStrict(undefined) throws a TypeError.
RECURSIVE transferTo(_, _, _, _, _)
transferTo(r, lastRegions, origRanges, modRanges, i) ==
    IF i > Len(lastRegions) THEN [threw |-> FALSE, region |-> r]
    ELSE IF i > Len(origRanges) THEN [threw |-> TRUE, region |-> r]
    ELSE IF ~intersectsStrict(originalRange(r), origRanges[i])
    THEN transferTo(r, lastRegions, origRanges, modRanges, i + 1)
    ELSE IF i > Len(modRanges) THEN [threw |-> TRUE, region |-> r]
    ELSE IF intersectsStrict(modifiedRange(r), modRanges[i])
    THEN [threw |-> FALSE,
          region |-> setState(r, lastRegions[i].visibleLineCountTop,
                                 lastRegions[i].visibleLineCountBottom)]
    ELSE transferTo(r, lastRegions, origRanges, modRanges, i + 1)

\* The outer loop: the new regions with the transferred state, or threw.
transferState(newUnchangedRegions, lastRegions, origRanges, modRanges) ==
    LET each == [k \in 1..Len(newUnchangedRegions) |->
                    transferTo(newUnchangedRegions[k], lastRegions,
                               origRanges, modRanges, 1)]
    IN  [threw |-> \E k \in 1..Len(each) : each[k].threw,
         regions |-> [k \in 1..Len(each) |-> each[k].region]]

\* Mutant: the token is not looked at after the await.
tokenNotChecked(c) == FALSE

\* if (cancellationTokenSrc.token.isCancellationRequested) { return; }
tokenCancelled(c) == c.isCancellationRequested

\* Mutant: the transaction sets the diff and the flag, not the regions.
publishWithoutRegions(result, regions, originalDecorationIds, modifiedDecorationIds) ==
    /\ diff' = Some(result)
    /\ isDiffUpToDate' = TRUE
    /\ UNCHANGED unchangedRegions

\* transaction(tx => { _diff.set; _isDiffUpToDate.set; _unchangedRegions.set })
publishTransaction(result, regions, originalDecorationIds, modifiedDecorationIds) ==
    /\ diff' = Some(result)
    /\ isDiffUpToDate' = TRUE
    /\ unchangedRegions' =
        [regions |-> regions,
         originalDecorationIds |-> originalDecorationIds,
         modifiedDecorationIds |-> modifiedDecorationIds]

\* Mutant: the previous regions as they were when run c was triggered.
readRegionsOfTrigger(c) ==
    [unchangedRegions EXCEPT !.regions = c.regionsAtTrigger]

\* const lastUnchangedRegions = this._unchangedRegions.get(), read by the
\* continuation of run c, after the await.
readLastUnchangedRegions(c) == unchangedRegions

\* Mutant: the new decorations are added, the previous ones are not removed.
rebindWithoutRelease(textModel, lastDecorationIds, newRanges) ==
    deltaDecorations(textModel, << >>, newRanges)

\* model.deltaDecorations(lastUnchangedRegions.*DecorationIds, newRanges)
rebindDecorations(textModel, lastDecorationIds, newRanges) ==
    deltaDecorations(textModel, lastDecorationIds, newRanges)

\* The continuation after "await computeDiff" of an uncancelled run.
continueWithResult(e, result) ==
    LET newUnchangedRegions ==
            fromDiffs(result.changes, original.lineCount, modified.lineCount)
        lastUnchangedRegions == readLastUnchangedRegions(computations[e])
        origResolved == resolvedRanges(original, lastUnchangedRegions.originalDecorationIds)
        modResolved == resolvedRanges(modified, lastUnchangedRegions.modifiedDecorationIds)
        transferred ==
            transferState(newUnchangedRegions, lastUnchangedRegions.regions,
                          filteredLineRanges(origResolved),
                          filteredLineRanges(modResolved))
        newOrig == [k \in 1..Len(transferred.regions) |->
                        toInclusiveRange(originalRange(transferred.regions[k]))]
        newMod == [k \in 1..Len(transferred.regions) |->
                        toInclusiveRange(modifiedRange(transferred.regions[k]))]
        observed == [computation |-> e,
                     lastRegions |-> lastUnchangedRegions.regions,
                     origResolved |-> origResolved,
                     modResolved |-> modResolved,
                     derived |-> newUnchangedRegions]
    IN  IF transferred.threw
        THEN /\ computations' = [computations EXCEPT ![e].state = "threw"]
             /\ lastTransfer' = [kind |-> "threw"] @@ observed
             /\ UNCHANGED << original, modified, diff, isDiffUpToDate, unchangedRegions >>
        ELSE /\ original' = rebindDecorations(original,
                                lastUnchangedRegions.originalDecorationIds, newOrig)
             /\ modified' = rebindDecorations(modified,
                                lastUnchangedRegions.modifiedDecorationIds, newMod)
             /\ publishTransaction(result, transferred.regions,
                                   deltaDecorationIds(original,
                                       lastUnchangedRegions.originalDecorationIds, newOrig),
                                   deltaDecorationIds(modified,
                                       lastUnchangedRegions.modifiedDecorationIds, newMod))
             /\ computations' = [computations EXCEPT ![e].state = "published",
                                                     ![e].publishes = @ + 1]
             /\ lastTransfer' = [kind |-> "published"] @@ observed

\* The results the provider call of run e may resolve with.
ProviderResults(e) ==
    IF computations[e].call = None THEN {}
    ELSE ChangeListTable[ValueOf(computations[e].call).originalLineCount,
                         ValueOf(computations[e].call).modifiedLineCount]

\* documentDiffProvider.computeDiff resolves with a change list for the
\* documents it was called with. The result also records what it was
\* computed for and the run that awaited it.
ComputeDiffResolves(e, changes) ==
    /\ e \in DOMAIN computations
    /\ computations[e].state = "computeDiff"
    /\ changes \in ProviderResults(e)
    /\ IF tokenCancelled(computations[e])
       THEN /\ computations' = [computations EXCEPT ![e].state = "discarded"]
            /\ lastTransfer' = NoTransfer
            /\ UNCHANGED << original, modified, diff, isDiffUpToDate, unchangedRegions >>
       ELSE continueWithResult(e, [changes |-> changes,
                                   computedFor |-> ValueOf(computations[e].call),
                                   computation |-> e])
    /\ UNCHANGED << ignoreTrimWhitespace, maxComputationTimeMs, providerOptions,
                    disposed, numInputChanges, numFoldOps >>

\* --------------------------------------------------------- fold operations
foldOp(regions) ==
    /\ numFoldOps < MaxFoldOps
    /\ numFoldOps' = numFoldOps + 1
    /\ unchangedRegions' = [unchangedRegions EXCEPT !.regions = regions]
    /\ lastTransfer' = NoTransfer
    /\ UNCHANGED << original, modified, ignoreTrimWhitespace, maxComputationTimeMs,
                    providerOptions, isDiffUpToDate, diff, computations, disposed,
                    numInputChanges >>

ShowMoreAbove(i) ==
    /\ i \in DOMAIN unchangedRegions.regions
    /\ foldOp([unchangedRegions.regions EXCEPT ![i] = showMoreAbove(@)])

ShowMoreBelow(i) ==
    /\ i \in DOMAIN unchangedRegions.regions
    /\ foldOp([unchangedRegions.regions EXCEPT ![i] = showMoreBelow(@)])

ShowAll(i) ==
    /\ i \in DOMAIN unchangedRegions.regions
    /\ foldOp([unchangedRegions.regions EXCEPT ![i] = showAll(@)])

SetState(i, top, bottom) ==
    /\ i \in DOMAIN unchangedRegions.regions
    /\ foldOp([unchangedRegions.regions EXCEPT ![i] = setState(@, top, bottom)])

\* Mutant: revealModifiedLine tests the hidden range in the original document.
RECURSIVE revealModifiedFromOriginalSide(_, _, _)
revealModifiedFromOriginalSide(regions, lineNumber, i) ==
    IF i > Len(regions) THEN regions
    ELSE IF contains(getHiddenOriginalRange(regions[i]), lineNumber)
    THEN [regions EXCEPT ![i] = showAll(@)]
    ELSE revealModifiedFromOriginalSide(regions, lineNumber, i + 1)

\* for (const r of unchangedRegions) if (hidden range contains) showAll, return
RECURSIVE revealModifiedFrom(_, _, _)
revealModifiedFrom(regions, lineNumber, i) ==
    IF i > Len(regions) THEN regions
    ELSE IF contains(getHiddenModifiedRange(regions[i]), lineNumber)
    THEN [regions EXCEPT ![i] = showAll(@)]
    ELSE revealModifiedFrom(regions, lineNumber, i + 1)

RECURSIVE revealOriginalFrom(_, _, _)
revealOriginalFrom(regions, lineNumber, i) ==
    IF i > Len(regions) THEN regions
    ELSE IF contains(getHiddenOriginalRange(regions[i]), lineNumber)
    THEN [regions EXCEPT ![i] = showAll(@)]
    ELSE revealOriginalFrom(regions, lineNumber, i + 1)

revealModifiedLine(lineNumber) ==
    /\ lineNumber \in 1..modified.lineCount
    /\ foldOp(revealModifiedFrom(unchangedRegions.regions, lineNumber, 1))

revealOriginalLine(lineNumber) ==
    /\ lineNumber \in 1..original.lineCount
    /\ foldOp(revealOriginalFrom(unchangedRegions.regions, lineNumber, 1))

\* ------------------------------------------------------- the specification
Next ==
    \/ \E edit \in Edits(original) : OriginalChanges(edit)
    \/ \E edit \in Edits(modified) : ModifiedChanges(edit)
    \/ ProviderOptionChanges
    \/ IgnoreTrimWhitespaceChanges
    \/ \E ms \in MaxComputationTimes : MaxComputationTimeMsChanges(ms)
    \/ Dispose
    \/ \E e \in DOMAIN computations : TimeoutResolves(e)
    \/ \E e \in DOMAIN computations : ComputeDiffRejects(e)
    \/ \E e \in DOMAIN computations :
        \E changes \in ProviderResults(e) : ComputeDiffResolves(e, changes)
    \/ \E i \in DOMAIN unchangedRegions.regions : ShowMoreAbove(i)
    \/ \E i \in DOMAIN unchangedRegions.regions : ShowMoreBelow(i)
    \/ \E i \in DOMAIN unchangedRegions.regions : ShowAll(i)
    \/ \E i \in DOMAIN unchangedRegions.regions :
        \E top \in SetStateArgs, bottom \in SetStateArgs : SetState(i, top, bottom)
    \/ \E lineNumber \in 1..modified.lineCount : revealModifiedLine(lineNumber)
    \/ \E lineNumber \in 1..original.lineCount : revealOriginalLine(lineNumber)

Spec == Init /\ [][Next]_vars

\* ------------------------------------------- the derivation, on its own
\* fromDiffs over every change list of the bounds below, applied by the
\* continuation of the first run: documents of any line counts up to
\* MaxDeriveLines, the provider call of the first run in progress, and the
\* provider resolving with any valid change list for these documents,
\* insertions before the first line and after the last line included.
MaxDeriveLines == 14
DeriveMappingCounts == 0..2
DeriveChangeLens == 0..2
DeriveLineCounts == 1..MaxDeriveLines
DeriveModifiedLineCounts ==
    1..(MaxDeriveLines + 4)

RECURSIVE DeriveChangesFrom(_, _, _, _, _)
\* The change lists of at most n mappings that start at original line >=
\* minStart, modStart - origStart being delta before the first of them.
DeriveChangesFrom(n, minStart, delta, originalLineCount, modifiedLineCount) ==
    {<< >> : x \in IF originalLineCount + delta = modifiedLineCount THEN {1} ELSE {}}
    \cup
    IF n = 0 THEN {}
    ELSE UNION {
        {<< LineRangeMapping(ofLength(s, olen), ofLength(s + delta, mlen)) >> \o rest :
            rest \in DeriveChangesFrom(n - 1, s + olen + 1, delta + mlen - olen,
                                       originalLineCount, modifiedLineCount)} :
        <<s, olen, mlen>> \in
            {t \in (minStart..(originalLineCount + 1))
                    \X DeriveChangeLens \X DeriveChangeLens :
                /\ t[2] + t[3] > 0
                /\ t[1] + t[2] <= originalLineCount + 1
                /\ t[1] + delta + t[3] <= modifiedLineCount + 1}}

DeriveChangeListTable ==
    [originalLineCount \in DeriveLineCounts,
     modifiedLineCount \in DeriveModifiedLineCounts |->
        DeriveChangesFrom(Cardinality(DeriveMappingCounts) - 1, 1, 0,
                          originalLineCount, modifiedLineCount)]
DeriveChangeLists(originalLineCount, modifiedLineCount) ==
    DeriveChangeListTable[originalLineCount, modifiedLineCount]

\* The first run awaits the provider, for documents of the drawn line counts.
DeriveInit ==
    /\ \E originalLineCount \in DeriveLineCounts,
          modifiedLineCount \in DeriveModifiedLineCounts :
        /\ DeriveChangeLists(originalLineCount, modifiedLineCount) # {}
        /\ original = TextModel(1, originalLineCount, << >>)
        /\ modified = TextModel(1, modifiedLineCount, << >>)
    /\ ignoreTrimWhitespace = FALSE
    /\ maxComputationTimeMs = 5000
    /\ providerOptions = 1
    /\ isDiffUpToDate = FALSE
    /\ diff = None
    /\ unchangedRegions =
        [regions |-> << >>, originalDecorationIds |-> << >>,
         modifiedDecorationIds |-> << >>]
    /\ computations =
        << [newComputation(Inputs) EXCEPT
                !.state = "computeDiff", !.calls = 1, !.call = Some(Inputs)] >>
    /\ disposed = FALSE
    /\ numInputChanges = 0
    /\ numFoldOps = 0
    /\ lastTransfer = NoTransfer

\* The provider resolves and the continuation derives and publishes.
DeriveResolves(changes) ==
    /\ computations[1].state = "computeDiff"
    /\ changes \in DeriveChangeLists(original.lineCount, modified.lineCount)
    /\ continueWithResult(1, [changes |-> changes,
                              computedFor |-> ValueOf(computations[1].call),
                              computation |-> 1])
    /\ UNCHANGED << ignoreTrimWhitespace, maxComputationTimeMs, providerOptions,
                    disposed, numInputChanges, numFoldOps >>

DeriveNext ==
    \E changes \in DeriveChangeLists(original.lineCount, modified.lineCount) :
        DeriveResolves(changes)

DeriveSpec == DeriveInit /\ [][DeriveNext]_vars

\* --------------------------------------- the fold operations, on their own
\* Any number of fold operations on the regions of a first publish: the
\* DiffModel of two documents of line counts in LineCounts, whose first run
\* has published any result the provider may report for them.
PublishedInit(originalLineCount, modifiedLineCount, changes) ==
    LET inputs == [originalVersionId |-> 1, modifiedVersionId |-> 1,
                   originalLineCount |-> originalLineCount,
                   modifiedLineCount |-> modifiedLineCount,
                   providerOptions |-> 1, ignoreTrimWhitespace |-> FALSE,
                   maxComputationTimeMs |-> 5000]
        regions == fromDiffs(changes, originalLineCount, modifiedLineCount)
        newOrig == [k \in 1..Len(regions) |-> toInclusiveRange(originalRange(regions[k]))]
        newMod == [k \in 1..Len(regions) |-> toInclusiveRange(modifiedRange(regions[k]))]
        originalBefore == TextModel(1, originalLineCount, << >>)
        modifiedBefore == TextModel(1, modifiedLineCount, << >>)
    IN  /\ original = deltaDecorations(originalBefore, << >>, newOrig)
        /\ modified = deltaDecorations(modifiedBefore, << >>, newMod)
        /\ ignoreTrimWhitespace = FALSE
        /\ maxComputationTimeMs = 5000
        /\ providerOptions = 1
        /\ isDiffUpToDate = TRUE
        /\ diff = Some([changes |-> changes, computedFor |-> inputs, computation |-> 1])
        /\ unchangedRegions =
            [regions |-> regions,
             originalDecorationIds |-> deltaDecorationIds(originalBefore, << >>, newOrig),
             modifiedDecorationIds |-> deltaDecorationIds(modifiedBefore, << >>, newMod)]
        /\ computations =
            << [newComputation(inputs) EXCEPT
                    !.state = "published", !.calls = 1, !.call = Some(inputs),
                    !.publishes = 1, !.regionsAtTrigger = << >>] >>
        /\ disposed = FALSE
        /\ numInputChanges = 0
        /\ numFoldOps = 0
        /\ lastTransfer =
            [kind |-> "published", computation |-> 1, lastRegions |-> << >>,
             origResolved |-> << >>, modResolved |-> << >>, derived |-> regions]

FoldInit ==
    \E originalLineCount \in LineCounts, modifiedLineCount \in LineCounts :
        \E changes \in ChangeListTable[originalLineCount, modifiedLineCount] :
            PublishedInit(originalLineCount, modifiedLineCount, changes)

\* A fold operation changes the counts of published regions, nothing else.
applyFold(regions) ==
    /\ unchangedRegions' = [unchangedRegions EXCEPT !.regions = regions]
    /\ lastTransfer' = NoTransfer
    /\ UNCHANGED << original, modified, ignoreTrimWhitespace, maxComputationTimeMs,
                    providerOptions, isDiffUpToDate, diff, computations, disposed,
                    numInputChanges, numFoldOps >>

RegionShowMoreAbove(i) ==
    /\ i \in DOMAIN unchangedRegions.regions
    /\ applyFold([unchangedRegions.regions EXCEPT ![i] = showMoreAbove(@)])

RegionShowMoreBelow(i) ==
    /\ i \in DOMAIN unchangedRegions.regions
    /\ applyFold([unchangedRegions.regions EXCEPT ![i] = showMoreBelow(@)])

RegionShowAll(i) ==
    /\ i \in DOMAIN unchangedRegions.regions
    /\ applyFold([unchangedRegions.regions EXCEPT ![i] = showAll(@)])

RegionSetState(i, top, bottom) ==
    /\ i \in DOMAIN unchangedRegions.regions
    /\ applyFold([unchangedRegions.regions EXCEPT ![i] = setState(@, top, bottom)])

ModelRevealModifiedLine(lineNumber) ==
    /\ lineNumber \in 1..modified.lineCount
    /\ applyFold(revealModifiedFrom(unchangedRegions.regions, lineNumber, 1))

ModelRevealOriginalLine(lineNumber) ==
    /\ lineNumber \in 1..original.lineCount
    /\ applyFold(revealOriginalFrom(unchangedRegions.regions, lineNumber, 1))

FoldNext ==
    \/ \E i \in DOMAIN unchangedRegions.regions : RegionShowMoreAbove(i)
    \/ \E i \in DOMAIN unchangedRegions.regions : RegionShowMoreBelow(i)
    \/ \E i \in DOMAIN unchangedRegions.regions : RegionShowAll(i)
    \/ \E i \in DOMAIN unchangedRegions.regions :
        \E top \in SetStateArgs, bottom \in SetStateArgs : RegionSetState(i, top, bottom)
    \/ \E lineNumber \in 1..modified.lineCount : ModelRevealModifiedLine(lineNumber)
    \/ \E lineNumber \in 1..original.lineCount : ModelRevealOriginalLine(lineNumber)

FoldSpec == FoldInit /\ [][FoldNext]_vars

\* ================================================================= claims
epoch == Len(computations)
Boundaries(regions) ==
    [k \in 1..Len(regions) |->
        << regions[k].originalLineNumber, regions[k].modifiedLineNumber,
           regions[k].lineCount >>]
Pending(c) == c.state \in {"timeout", "computeDiff"}

\* C1: a result is published only by the run of the latest trigger, and only
\* if no trigger occurred since that trigger: no run that was superseded
\* before it published has published, and at the moment of publication the
\* published diff was computed for the current document versions, line counts
\* and option values.
C1_NoStalePublish ==
    /\ \A e \in DOMAIN computations :
        computations[e].publishes > 0 =>
            computations[e].supersededWhile \in {"no", "published"}
    /\ lastTransfer.kind = "published" =>
        /\ lastTransfer.computation = epoch
        /\ ValueOf(diff).computation = epoch
        /\ ValueOf(diff).computedFor = Inputs
        /\ computations[epoch].trigger = Inputs

\* A stale provider call completed while a newer run was active and was
\* dropped, and the newer run published.
C1_Witness ==
    /\ epoch >= 2
    /\ computations[1].state = "discarded"
    /\ computations[1].supersededWhile = "computeDiff"
    /\ lastTransfer.kind = "published"
    /\ lastTransfer.computation = 2

\* C2: isDiffUpToDate is true only if the run of the latest trigger has
\* published (no trigger since the last publish); then no run that is not
\* cancelled waits for its timeout or its provider, and the published diff is
\* the one that run computed.
C2_UpToDateOnlyAfterPublish ==
    isDiffUpToDate =>
        /\ computations[epoch].state = "published"
        /\ diff # None
        /\ ValueOf(diff).computation = epoch
        /\ \A e \in DOMAIN computations :
            Pending(computations[e]) => computations[e].isCancellationRequested

\* After a publish a trigger occurred: the flag is false while the new run
\* waits for the provider, the previous diff still being there.
C2_Witness ==
    /\ epoch >= 2
    /\ computations[1].state = "published"
    /\ computations[epoch].state = "computeDiff"
    /\ ~computations[epoch].isCancellationRequested
    /\ diff # None
    /\ ~isDiffUpToDate

\* C3: a run superseded while it waited for its timeout never calls the
\* provider and never publishes; every run calls the provider at most once,
\* with the inputs of its own trigger, and publishes at most once; so a run
\* superseded in its timeout and the next run, once that has published, made
\* exactly one provider call and one publish between them.
C3_DebounceCoalesces ==
    /\ \A e \in DOMAIN computations :
        /\ computations[e].calls <= 1
        /\ computations[e].publishes <= 1
        /\ computations[e].supersededWhile = "timeout" =>
            /\ computations[e].calls = 0
            /\ computations[e].publishes = 0
        /\ computations[e].call # None =>
            ValueOf(computations[e].call) = computations[e].trigger
    /\ \A e \in DOMAIN computations :
        (/\ e + 1 \in DOMAIN computations
         /\ computations[e].supersededWhile = "timeout"
         /\ computations[e + 1].state = "published") =>
            /\ computations[e].calls + computations[e + 1].calls = 1
            /\ computations[e].publishes + computations[e + 1].publishes = 1
            /\ ValueOf(computations[e + 1].call) = computations[e + 1].trigger

\* The second trigger came during the timeout of the first, and the second
\* run has published.
C3_Witness ==
    /\ epoch >= 2
    /\ computations[1].supersededWhile = "timeout"
    /\ computations[1].state = "cancelledInTimeout"
    /\ computations[2].state = "published"
    /\ computations[2].trigger # computations[1].trigger

\* C4: the diff, the flag and the regions of a state come from one publish:
\* without a diff there are no regions and no handles and the flag is false;
\* with a diff, the regions' boundaries are those derived from that diff for
\* the line counts it was computed for, with one handle per region per side.
C4_AtomicPublish ==
    /\ isDiffUpToDate => diff # None
    /\ diff = None =>
        /\ unchangedRegions.regions = << >>
        /\ unchangedRegions.originalDecorationIds = << >>
        /\ unchangedRegions.modifiedDecorationIds = << >>
    /\ diff # None =>
        /\ Boundaries(unchangedRegions.regions) =
            Boundaries(fromDiffs(ValueOf(diff).changes,
                                 ValueOf(diff).computedFor.originalLineCount,
                                 ValueOf(diff).computedFor.modifiedLineCount))
        /\ Len(unchangedRegions.originalDecorationIds) = Len(unchangedRegions.regions)
        /\ Len(unchangedRegions.modifiedDecorationIds) = Len(unchangedRegions.regions)

\* A second publish replaced a non-empty region set by one of other boundaries.
C4_Witness ==
    /\ lastTransfer.kind = "published"
    /\ lastTransfer.lastRegions # << >>
    /\ unchangedRegions.regions # << >>
    /\ Boundaries(lastTransfer.lastRegions) # Boundaries(unchangedRegions.regions)

\* C5 as claimed: at most one provider call is in progress.
C5_AtMostOneProviderCall ==
    Cardinality({e \in DOMAIN computations : computations[e].state = "computeDiff"}) <= 1

\* C5 amended: at most one run is live, that is, pending with a token that
\* is not cancelled, and it is the run of the latest trigger; the provider
\* calls of superseded runs may still be in progress, their tokens cancelled.
C5_AtMostOneLiveRun ==
    \A e \in DOMAIN computations :
        (Pending(computations[e]) /\ ~computations[e].isCancellationRequested)
            => (e = epoch /\ ~disposed)

\* Two provider calls are in progress, one of them of a superseded run.
C5_Witness ==
    /\ epoch >= 2
    /\ computations[1].state = "computeDiff"
    /\ computations[1].isCancellationRequested
    /\ computations[2].state = "computeDiff"
    /\ ~computations[2].isCancellationRequested

\* C6: when the provider call of the latest trigger has rejected, the flag is
\* false, the diff (if any) is one an earlier run published, that run made its
\* one provider call and no publish, and no timeout is left that could call
\* the provider again.
C6_RejectionIsSilent ==
    computations[epoch].state = "rejected" =>
        /\ ~isDiffUpToDate
        /\ diff # None => ValueOf(diff).computation < epoch
        /\ C4_AtomicPublish
        /\ computations[epoch].calls = 1
        /\ computations[epoch].publishes = 0
        /\ \A e \in DOMAIN computations : computations[e].state # "timeout"

\* The provider call of the second trigger rejected; the diff of the first
\* publish is still there.
C6_Witness ==
    /\ epoch >= 2
    /\ computations[epoch].state = "rejected"
    /\ ~computations[epoch].isCancellationRequested
    /\ diff # None
    /\ unchangedRegions.regions # << >>

\* C7: once the model is disposed every token is cancelled and no step
\* changes the diff, the flag, the regions' boundaries or the handles.
C7_NoPublishAfterDispose ==
    [][/\ disposed' => \A e \in DOMAIN computations' :
                            computations'[e].isCancellationRequested
       /\ disposed =>
            /\ diff' = diff
            /\ isDiffUpToDate' = isDiffUpToDate
            /\ Boundaries(unchangedRegions'.regions) = Boundaries(unchangedRegions.regions)
            /\ unchangedRegions'.originalDecorationIds = unchangedRegions.originalDecorationIds
            /\ unchangedRegions'.modifiedDecorationIds = unchangedRegions.modifiedDecorationIds
            /\ \A e \in DOMAIN computations :
                computations'[e].publishes = computations[e].publishes]_vars

\* The model was disposed while the provider call of the latest run was in
\* progress, and that call has resolved since.
C7_Witness ==
    /\ disposed
    /\ computations[epoch].supersededWhile = "computeDiff"
    /\ computations[epoch].state = "discarded"

AllResolved(t) ==
    /\ \A i \in DOMAIN t.origResolved : t.origResolved[i] # None
    /\ \A i \in DOMAIN t.modResolved : t.modResolved[i] # None
Matches(t, r) ==
    {i \in DOMAIN t.lastRegions :
        /\ t.origResolved[i] # None
        /\ t.modResolved[i] # None
        /\ intersectsStrict(originalRange(r), fromRange(ValueOf(t.origResolved[i])))
        /\ intersectsStrict(modifiedRange(r), fromRange(ValueOf(t.modResolved[i])))}
FirstOf(S) == CHOOSE i \in S : \A j \in S : i <= j
\* The counts of previous region p, clamped to the line count of r.
ClampedState(p, r) ==
    LET top == Min(p.visibleLineCountTop, r.lineCount)
    IN  << top, Min(p.visibleLineCountBottom, r.lineCount - top) >>
StateOf(r) == << r.visibleLineCountTop, r.visibleLineCountBottom >>

\* C9: when every handle of the previous regions resolves, the transfer does
\* not fail and each new region has the clamped counts of the first previous
\* region that matches it, or 0 and 0 if none matches.
C9_FirstMatchTransfer ==
    (lastTransfer.kind # "none" /\ AllResolved(lastTransfer)) =>
        /\ lastTransfer.kind = "published"
        /\ Boundaries(unchangedRegions.regions) = Boundaries(lastTransfer.derived)
        /\ \A k \in DOMAIN unchangedRegions.regions :
            LET r == unchangedRegions.regions[k]
                m == Matches(lastTransfer, lastTransfer.derived[k])
            IN  StateOf(r) =
                    IF m = {} THEN << 0, 0 >>
                    ELSE ClampedState(lastTransfer.lastRegions[FirstOf(m)], r)

\* Two previous regions of different counts match a new region, which got
\* the counts of the first; another new region has no match.
C9_Witness ==
    /\ lastTransfer.kind = "published"
    /\ AllResolved(lastTransfer)
    /\ \E k \in DOMAIN unchangedRegions.regions :
        LET m == Matches(lastTransfer, lastTransfer.derived[k])
        IN  /\ Cardinality(m) >= 2
            /\ \E j \in m :
                StateOf(lastTransfer.lastRegions[j])
                    # StateOf(lastTransfer.lastRegions[FirstOf(m)])
            /\ StateOf(unchangedRegions.regions[k]) # << 0, 0 >>

\* C10 as claimed: when a handle of the previous regions does not resolve, the
\* continuation still publishes, and each new region has counts 0 and 0 or
\* the clamped counts of a previous region that matches it.
C10_UnresolvedAreSkipped ==
    (lastTransfer.kind # "none" /\ ~AllResolved(lastTransfer)) =>
        /\ lastTransfer.kind = "published"
        /\ \A k \in DOMAIN unchangedRegions.regions :
            LET r == unchangedRegions.regions[k]
                m == Matches(lastTransfer, lastTransfer.derived[k])
            IN  \/ StateOf(r) = << 0, 0 >>
                \/ \E i \in m : StateOf(r) = ClampedState(lastTransfer.lastRegions[i], r)

\* The unchanged lines between the change c and the region r in the original
\* and in the modified document, c lying before r or after it.
ChangeIsBefore(c, r) ==
    /\ c.originalRange.endLineNumberExclusive <= r.originalLineNumber
    /\ c.modifiedRange.endLineNumberExclusive <= r.modifiedLineNumber
OriginalContext(c, r) ==
    IF ChangeIsBefore(c, r)
    THEN r.originalLineNumber - c.originalRange.endLineNumberExclusive
    ELSE c.originalRange.startLineNumber - (r.originalLineNumber + r.lineCount)
ModifiedContext(c, r) ==
    IF ChangeIsBefore(c, r)
    THEN r.modifiedLineNumber - c.modifiedRange.endLineNumberExclusive
    ELSE c.modifiedRange.startLineNumber - (r.modifiedLineNumber + r.lineCount)

\* C11 as claimed: for every valid change list, insertions before the first
\* line and after the last line included, at least minContext unchanged lines
\* lie between every derived region and every change, in the original and in
\* the modified document.
C11_MinimumContext ==
    diff # None =>
        \A k \in DOMAIN unchangedRegions.regions :
            \A j \in DOMAIN ValueOf(diff).changes :
                /\ OriginalContext(ValueOf(diff).changes[j], unchangedRegions.regions[k])
                        >= minContext
                /\ ModifiedContext(ValueOf(diff).changes[j], unchangedRegions.regions[k])
                        >= minContext

\* What the three-branch rule emits for one unchanged span of the document of
\* originalLineCount lines: << >>, or the original start, the modified start
\* and the line count of the region.
RuleOf(span, originalLineCount) ==
    LET s == span.originalRange.startLineNumber
        m == span.modifiedRange.startLineNumber
        len == span.originalRange.endLineNumberExclusive - s
    IN  IF s = 1 /\ len > 6 THEN << s, m, len - 3 >>
        ELSE IF s + len = originalLineCount + 1 /\ len > 6 THEN << s + 3, m + 3, len - 3 >>
        ELSE IF len > 9 THEN << s + 3, m + 3, len - 6 >>
        ELSE << >>

\* C16: the regions derived from a change list are, in span order, what the
\* three-branch rule emits for each unchanged span of the inverted list, the
\* start-of-document branch first; each has counts 0 and at least 3 lines,
\* and deriving again yields the same boundaries.
C16_ThreeBranchRule ==
    diff # None =>
        LET originalLineCount == ValueOf(diff).computedFor.originalLineCount
            modifiedLineCount == ValueOf(diff).computedFor.modifiedLineCount
            spans == inverse(ValueOf(diff).changes, originalLineCount, modifiedLineCount)
            emitted == [i \in 1..Len(spans) |-> RuleOf(spans[i], originalLineCount)]
        IN  /\ Boundaries(unchangedRegions.regions)
                = SelectSeq(emitted, LAMBDA t : t # << >>)
            /\ \A k \in DOMAIN unchangedRegions.regions :
                /\ unchangedRegions.regions[k].lineCount >= 3
                /\ StateOf(unchangedRegions.regions[k]) = << 0, 0 >>
            /\ Boundaries(fromDiffs(ValueOf(diff).changes,
                                    originalLineCount, modifiedLineCount))
                = Boundaries(unchangedRegions.regions)

\* Two changes with ten or more unchanged lines between them: the span
\* between them yields a region trimmed at both ends, the spans before and
\* after them yield none.
C16_Witness ==
    /\ diff # None
    /\ Len(ValueOf(diff).changes) = 2
    /\ Len(unchangedRegions.regions) = 1
    /\ LET r == unchangedRegions.regions[1]
           c == ValueOf(diff).changes
       IN  /\ r.originalLineNumber = c[1].originalRange.endLineNumberExclusive + 3
           /\ r.originalLineNumber + r.lineCount + 3 = c[2].originalRange.startLineNumber
           /\ c[1].originalRange.startLineNumber > 1
           /\ c[2].originalRange.endLineNumberExclusive
                <= ValueOf(diff).computedFor.originalLineCount

\* C18: for every valid change list the derived regions are well formed: the
\* original and the modified range of a region have the same length and lie
\* within the lines of their document, no region contains a line of a change
\* mapping (nor the place of an insertion or deletion), and the regions are
\* strictly ascending and pairwise disjoint in both documents.
C18_RegionsWellFormed ==
    diff # None =>
        LET regions == unchangedRegions.regions
            changes == ValueOf(diff).changes
        IN  /\ \A k \in DOMAIN regions :
                /\ rangeLength(originalRange(regions[k]))
                    = rangeLength(modifiedRange(regions[k]))
                /\ rangeLength(originalRange(regions[k])) >= 1
                /\ originalRange(regions[k]).startLineNumber >= 1
                /\ originalRange(regions[k]).endLineNumberExclusive
                    <= ValueOf(diff).computedFor.originalLineCount + 1
                /\ modifiedRange(regions[k]).startLineNumber >= 1
                /\ modifiedRange(regions[k]).endLineNumberExclusive
                    <= ValueOf(diff).computedFor.modifiedLineCount + 1
                /\ \A j \in DOMAIN changes :
                    /\ ~intersectsStrict(originalRange(regions[k]), changes[j].originalRange)
                    /\ ~intersectsStrict(modifiedRange(regions[k]), changes[j].modifiedRange)
            /\ \A k \in DOMAIN regions : \A l \in DOMAIN regions :
                k < l =>
                    /\ originalRange(regions[k]).endLineNumberExclusive
                        <= originalRange(regions[l]).startLineNumber
                    /\ modifiedRange(regions[k]).endLineNumberExclusive
                        <= modifiedRange(regions[l]).startLineNumber

\* An insertion in the middle of the documents: a region before it and a
\* region after it, at different lines in the two documents.
C18_Witness ==
    /\ diff # None
    /\ Len(unchangedRegions.regions) = 2
    /\ \E j \in DOMAIN ValueOf(diff).changes :
        /\ isEmpty(ValueOf(diff).changes[j].originalRange)
        /\ ~isEmpty(ValueOf(diff).changes[j].modifiedRange)
    /\ unchangedRegions.regions[2].modifiedLineNumber
        > unchangedRegions.regions[2].originalLineNumber

\* The published regions whose hidden range contains the line.
HiddenModifiedHits(lineNumber) ==
    {k \in DOMAIN unchangedRegions.regions :
        contains(getHiddenModifiedRange(unchangedRegions.regions[k]), lineNumber)}
HiddenOriginalHits(lineNumber) ==
    {k \in DOMAIN unchangedRegions.regions :
        contains(getHiddenOriginalRange(unchangedRegions.regions[k]), lineNumber)}
\* The step unfolds the first of the regions hits and changes nothing else;
\* it changes nothing at all if there is none.
RevealEffect(hits) ==
    /\ UNCHANGED << diff, isDiffUpToDate, original, modified, computations, disposed >>
    /\ unchangedRegions'.originalDecorationIds = unchangedRegions.originalDecorationIds
    /\ unchangedRegions'.modifiedDecorationIds = unchangedRegions.modifiedDecorationIds
    /\ DOMAIN unchangedRegions'.regions = DOMAIN unchangedRegions.regions
    /\ \A k \in DOMAIN unchangedRegions.regions :
        LET r == unchangedRegions.regions[k]
        IN  unchangedRegions'.regions[k] =
                IF hits # {} /\ k = FirstOf(hits)
                THEN [r EXCEPT !.visibleLineCountBottom =
                                    r.lineCount - r.visibleLineCountTop]
                ELSE r

\* C12: revealModifiedLine(l) and revealOriginalLine(l) fully unfold the first
\* published region whose hidden range on that side contains l
\* (visibleLineCountBottom becomes lineCount - visibleLineCountTop, the top
\* count stays) and leave every other region, the diff, the flag and the
\* handles as they are; if no hidden range contains l, nothing changes.
C12_RevealUnfoldsFirstHit ==
    [][/\ \A lineNumber \in 1..modified.lineCount :
            ModelRevealModifiedLine(lineNumber)
                => RevealEffect(HiddenModifiedHits(lineNumber))
       /\ \A lineNumber \in 1..original.lineCount :
            ModelRevealOriginalLine(lineNumber)
                => RevealEffect(HiddenOriginalHits(lineNumber))]_vars

\* Of two regions at different lines in the two documents the second is
\* fully unfolded, with lines shown at its top and the rest at its bottom;
\* the first still hides lines.
C12_Witness ==
    /\ Len(unchangedRegions.regions) = 2
    /\ unchangedRegions.regions[2].modifiedLineNumber
        # unchangedRegions.regions[2].originalLineNumber
    /\ unchangedRegions.regions[2].visibleLineCountTop > 0
    /\ unchangedRegions.regions[2].visibleLineCountBottom > 0
    /\ isEmpty(getHiddenModifiedRange(unchangedRegions.regions[2]))
    /\ ~isEmpty(getHiddenModifiedRange(unchangedRegions.regions[1]))
    /\ lastTransfer.kind = "none"

\* C13: after showAll on a region in any visibility state, its hidden
\* original range and its hidden modified range are empty (length 0) and its
\* visibleLineCountTop is what it was.
C13_ShowAllHidesNothing ==
    [][\A i \in DOMAIN unchangedRegions.regions :
        RegionShowAll(i) =>
            LET r == unchangedRegions'.regions[i]
            IN  /\ rangeLength(getHiddenOriginalRange(r)) = 0
                /\ rangeLength(getHiddenModifiedRange(r)) = 0
                /\ isEmpty(getHiddenOriginalRange(r))
                /\ isEmpty(getHiddenModifiedRange(r))
                /\ r.visibleLineCountTop
                    = unchangedRegions.regions[i].visibleLineCountTop]_vars

\* A region that shows two lines at its top (set by setState) hides nothing,
\* the rest of it being shown at its bottom.
C13_Witness ==
    /\ lastTransfer.kind = "none"
    /\ \E k \in DOMAIN unchangedRegions.regions :
        LET r == unchangedRegions.regions[k]
        IN  /\ r.visibleLineCountTop = 2
            /\ r.visibleLineCountBottom = r.lineCount - 2
            /\ r.visibleLineCountBottom > 2
            /\ isEmpty(getHiddenOriginalRange(r))

\* C14: setState(top, bottom) with non-negative arguments leaves the region
\* with visibleLineCountTop = min(top, lineCount) and visibleLineCountBottom =
\* min(bottom, lineCount - visibleLineCountTop); with top > lineCount that is
\* lineCount and 0.
C14_SetStateClamps ==
    [][\A i \in DOMAIN unchangedRegions.regions :
        \A top \in SetStateArgs, bottom \in SetStateArgs :
            RegionSetState(i, top, bottom) =>
                LET r == unchangedRegions'.regions[i]
                    lineCount == unchangedRegions.regions[i].lineCount
                IN  /\ r.lineCount = lineCount
                    /\ r.visibleLineCountTop = IF top <= lineCount THEN top ELSE lineCount
                    /\ r.visibleLineCountBottom =
                        IF bottom <= lineCount - r.visibleLineCountTop
                        THEN bottom ELSE lineCount - r.visibleLineCountTop
                    /\ top > lineCount =>
                        /\ r.visibleLineCountTop = lineCount
                        /\ r.visibleLineCountBottom = 0]_vars

\* Of two regions, the one of fewer than 20 lines shows all its lines at its
\* top and none at its bottom (setState with top 20 does that), the other
\* shows 2 lines at its bottom.
C14_Witness ==
    /\ lastTransfer.kind = "none"
    /\ Len(unchangedRegions.regions) = 2
    /\ unchangedRegions.regions[1].visibleLineCountTop
        = unchangedRegions.regions[1].lineCount
    /\ unchangedRegions.regions[1].visibleLineCountBottom = 0
    /\ StateOf(unchangedRegions.regions[2]) = << 0, 2 >>

\* C15: showMoreAbove raises visibleLineCountTop by min(10, lineCount -
\* visibleLineCountTop - visibleLineCountBottom) and leaves
\* visibleLineCountBottom; showMoreBelow does the same to
\* visibleLineCountBottom and leaves visibleLineCountTop; neither lowers a
\* count, and neither changes a region that hides nothing.
C15_ShowMoreGrows ==
    [][\A i \in DOMAIN unchangedRegions.regions :
        LET r == unchangedRegions.regions[i]
            after == unchangedRegions'.regions[i]
            hidden == r.lineCount - r.visibleLineCountTop - r.visibleLineCountBottom
            more == IF hidden < 10 THEN hidden ELSE 10
        IN  /\ RegionShowMoreAbove(i) =>
                /\ after.visibleLineCountTop = r.visibleLineCountTop + more
                /\ after.visibleLineCountBottom = r.visibleLineCountBottom
            /\ RegionShowMoreBelow(i) =>
                /\ after.visibleLineCountBottom = r.visibleLineCountBottom + more
                /\ after.visibleLineCountTop = r.visibleLineCountTop
            /\ (RegionShowMoreAbove(i) \/ RegionShowMoreBelow(i)) =>
                /\ after.visibleLineCountTop >= r.visibleLineCountTop
                /\ after.visibleLineCountBottom >= r.visibleLineCountBottom
                /\ hidden = 0 => after = r]_vars

\* A region of more than 10 lines shows 10 lines at its top, after
\* showMoreAbove, and 2 at its bottom; fewer than 10 lines are left hidden.
C15_Witness ==
    /\ lastTransfer.kind = "none"
    /\ \E k \in DOMAIN unchangedRegions.regions :
        LET r == unchangedRegions.regions[k]
        IN  /\ r.visibleLineCountTop = ShowMoreLines
            /\ r.visibleLineCountBottom = 2
            /\ r.lineCount > r.visibleLineCountTop + r.visibleLineCountBottom

HandleIds(decorationIds) == {decorationIds[k] : k \in 1..Len(decorationIds)}
\* The region set holds one handle per region for the document, no handle
\* twice, and no other handle is live in the document.
HandlesOwned(textModel, decorationIds) ==
    /\ Len(decorationIds) = Len(unchangedRegions.regions)
    /\ Cardinality(HandleIds(decorationIds)) = Len(decorationIds)
    /\ DOMAIN textModel.decorations \subseteq HandleIds(decorationIds)

\* C17: the region set holds one original and one modified handle per
\* region, in region order, and no handle that is not of the current region
\* set is live in either document (a handle of the set may have been lost to
\* an edit); after each publish the live handles of each document are exactly
\* those of the published set, the handle of region k bound to the full
\* original or modified range of region k, the previous handles released.
C17_HandlesRebound ==
    /\ HandlesOwned(original, unchangedRegions.originalDecorationIds)
    /\ HandlesOwned(modified, unchangedRegions.modifiedDecorationIds)
    /\ lastTransfer.kind = "published" =>
        /\ DOMAIN original.decorations = HandleIds(unchangedRegions.originalDecorationIds)
        /\ DOMAIN modified.decorations = HandleIds(unchangedRegions.modifiedDecorationIds)
        /\ \A k \in DOMAIN unchangedRegions.regions :
            LET r == unchangedRegions.regions[k]
                o == original.decorations[unchangedRegions.originalDecorationIds[k]]
                m == modified.decorations[unchangedRegions.modifiedDecorationIds[k]]
            IN  /\ o.startLineNumber = r.originalLineNumber
                /\ o.endLineNumber = r.originalLineNumber + r.lineCount - 1
                /\ m.startLineNumber = r.modifiedLineNumber
                /\ m.endLineNumber = r.modifiedLineNumber + r.lineCount - 1

\* A second publish replaced two regions, whose handles all resolved, by one
\* region: the handles 1 and 2 of the first publish are gone from both
\* documents, the one live handle of each is the new region's.
C17_Witness ==
    /\ lastTransfer.kind = "published"
    /\ Len(lastTransfer.lastRegions) = 2
    /\ AllResolved(lastTransfer)
    /\ Len(unchangedRegions.regions) = 1
    /\ Cardinality(DOMAIN original.decorations) = 1
    /\ Cardinality(DOMAIN modified.decorations) = 1
    /\ 1 \notin DOMAIN original.decorations
    /\ 2 \notin DOMAIN modified.decorations

\* C19 as claimed, as the state it promises: when the model is not disposed
\* and the provider call of the latest trigger has resolved (no trigger came
\* since, so its token is not cancelled), isDiffUpToDate is true and the diff
\* is the result of that call.
C19_FreshOnceResolved ==
    (~disposed /\ computations[epoch].state \in {"published", "threw"}) =>
        /\ isDiffUpToDate
        /\ diff # None
        /\ ValueOf(diff).computation = epoch

\* The counts the regions had when the run of the transfer was triggered.
AtTrigger(t) == computations[t.computation].regionsAtTrigger
\* Previous region i got other counts between the trigger and the publish.
FoldedSinceTrigger(t, i) ==
    /\ i \in DOMAIN AtTrigger(t)
    /\ StateOf(t.lastRegions[i]) # StateOf(AtTrigger(t)[i])

\* C20 as claimed (every handle resolving): the counts a fold operation gave
\* a previous region between the trigger and the publish are carried,
\* clamped, onto every new region that overlaps it.
C20_FoldChangesCarried ==
    (lastTransfer.kind = "published" /\ AllResolved(lastTransfer)) =>
        \A i \in DOMAIN lastTransfer.lastRegions :
            FoldedSinceTrigger(lastTransfer, i) =>
                \A k \in DOMAIN unchangedRegions.regions :
                    i \in Matches(lastTransfer, lastTransfer.derived[k]) =>
                        StateOf(unchangedRegions.regions[k])
                            = ClampedState(lastTransfer.lastRegions[i],
                                           unchangedRegions.regions[k])

\* C20 amended: the transfer reads the counts the previous regions have when
\* the publish step is taken, fold operations since the trigger included:
\* each new region gets 0 and 0 or the clamped counts some previous region
\* has at that moment, and, every handle resolving, a new region with a match
\* gets those of its first match; so a fold operation since the trigger is
\* carried onto the new regions whose first match is the folded region.
C20_TransferReadsAtPublication ==
    [][lastTransfer'.kind = "published" =>
        \A k \in DOMAIN unchangedRegions'.regions :
            LET r == unchangedRegions'.regions[k]
                before == unchangedRegions.regions
                m == Matches(lastTransfer', lastTransfer'.derived[k])
            IN  /\ \/ StateOf(r) = << 0, 0 >>
                   \/ \E i \in DOMAIN before : StateOf(r) = ClampedState(before[i], r)
                /\ (AllResolved(lastTransfer') /\ m # {}) =>
                        StateOf(r) = ClampedState(before[FirstOf(m)], r)]_vars

\* A fold operation changed a region after the trigger of the run that then
\* published; the new region whose first match it is has its counts.
C20_Witness ==
    /\ lastTransfer.kind = "published"
    /\ AllResolved(lastTransfer)
    /\ \E k \in DOMAIN unchangedRegions.regions :
        LET m == Matches(lastTransfer, lastTransfer.derived[k])
        IN  /\ m # {}
            /\ FoldedSinceTrigger(lastTransfer, FirstOf(m))
            /\ StateOf(unchangedRegions.regions[k]) # << 0, 0 >>
            /\ StateOf(unchangedRegions.regions[k])
                = ClampedState(lastTransfer.lastRegions[FirstOf(m)],
                               unchangedRegions.regions[k])

====
